---- MODULE Spec2Model ----
(***************************************************************************)
(* A model of program_synthesis/models/modules/karel_trace.py:             *)
(*   - LatePoolingCodeDecoder: State, Memory, init_state, prepare_memory,  *)
(*     compute_next_token_logits, decode_token and the teacher-forced      *)
(*     forward loop;                                                       *)
(*   - TraceDecoder.decode_token and TraceDecoderState.select_for_beams;   *)
(*   - IndividualTraceEncoder.__init__.                                    *)
(*                                                                         *)
(* A tensor is a record [shape, data]: its shape and its cells in          *)
(* row-major order.  The trailing feature axis (256 / 512 wide) is not a   *)
(* dimension of the model: one cell stands for one feature vector, and a   *)
(* cell's value is the set of input atoms (example ids, token ids) the     *)
(* vector was computed from.  Feature widths are tracked separately where  *)
(* the code checks them (nn.LSTM input_size, nn.Linear in_features).       *)
(***************************************************************************)
EXTENDS Integers, Sequences, FiniteSets, TLC

\* ------------------------------------------------------------------ bounds
MaxBatch == 2
MaxRows == 4
MaxBeam == 3
MaxPairs == 2
MaxK == 3
MaxOps == 3
MaxLen == 3
MaxDecodeRows == 2

\* --------------------------------------------------------- program constants
num_layers == 2
StartTok == 0
EndTok == 1
FirstActionId == 2
num_actions == 7

\* ---------------------------------------------------------------- state
\* A LatePoolingCodeDecoder, the memory its caller prepared and the state the
\* caller (beam search, or forward) carries from call to call.
VARIABLES
    use_io_embed,       \* self.use_io_embed
    use_trace_memory,   \* self.use_trace_memory
    state,              \* the caller's LatePoolingCodeDecoder.State, NoState before init_state
    memory,             \* the caller's LatePoolingCodeDecoder.Memory
    fault,              \* "none", or the exception that ended the run
    batch,              \* the decode batch size the caller is working with
    last,               \* the last call: its name, arguments and the values it was given
    ops                 \* calls made so far

decVars == <<use_io_embed, use_trace_memory, state, memory, fault, batch, last, ops>>

\* LatePoolingCodeDecoder.forward: pc is the place in it, "idle" (not called),
\* "start", "loop" (before a timestep), "done" or "raised".
VARIABLES
    pc,
    args,          \* batch_size, pairs_per_example, io_embed, trace_memory as passed
    input_code,    \* PackedSequencePlus: batch_sizes, data, orig_to_sort
    output_code,   \* PackedSequencePlus of the targets, packed like input_code
    io_embed,      \* the io memory in sorted order, or None
    trace_memory,  \* the trace memory in sorted order, or None
    logits,        \* the list of per-timestep logits
    offset,
    last_bs,
    step,          \* the loop index i
    batch_order,
    passed,        \* what the last call of compute_next_token_logits was given
    returned       \* (logits, labels) once forward returned

fwdVars == <<pc, args, input_code, output_code, io_embed, trace_memory, logits, offset,
             last_bs, step, batch_order, passed, returned>>

\* A TraceDecoder and its caller's state.
VARIABLES
    grid_encoder,   \* TRUE when self.grid_encoder is a grid encoder, FALSE when None
    heap,           \* the numpy arrays allocated so far
    tstate,         \* the caller's TraceDecoderState: field (an address), h, c
    tmemory,        \* memory.value, the io embedding rows
    tfault,
    tlast           \* the last call: name, arguments, the state and array it was given

trVars == <<grid_encoder, heap, tstate, tmemory, tfault, tlast>>

\* The construction of an IndividualTraceEncoder.
VARIABLES
    enc_args,       \* args.karel_trace_grid_enc, _cond_enc, _action_enc, the options of
                    \* args.karel_trace_enc, and whether / is true division
    encoder         \* the encoder once __init__ ended: what it holds, or the exception

encVars == <<enc_args, encoder>>

vars == <<decVars, fwdVars, trVars, encVars>>

\* ----------------------------------------------------------------- tensors
Min(a, b) == IF a < b THEN a ELSE b

RECURSIVE Prod(_)
Prod(s) == IF s = <<>> THEN 1 ELSE Head(s) * Prod(Tail(s))

RECURSIVE FlatCat(_)
FlatCat(ss) == IF ss = <<>> THEN <<>> ELSE Head(ss) \o FlatCat(Tail(ss))

None == [shape |-> <<>>, data |-> <<>>]
IsNone(t) == t.shape = <<>>

Tensor(shape, data) == [shape |-> shape, data |-> data]
Zeros(shape) == Tensor(shape, [i \in 1..Prod(shape) |-> {}])

\* The size of dimension d (0-based, as in the source), 0 for None.
Dim(t, d) == IF Len(t.shape) > d THEN t.shape[d + 1] ELSE 0

\* The cells of block number b (0-based) when the data is cut in blocks of size n.
Block(data, b, n) == SubSeq(data, b * n + 1, b * n + n)

\* t[:k]
Slice0(t, k) ==
    LET n == Min(k, t.shape[1])
        inner == Prod(Tail(t.shape))
    IN Tensor(<<n>> \o Tail(t.shape), SubSeq(t.data, 1, n * inner))

\* t[:, :k]
Slice1(t, k) ==
    LET a == t.shape[1]
        b == t.shape[2]
        n == Min(k, b)
        inner == Prod(Tail(Tail(t.shape)))
    IN Tensor(<<a, n>> \o Tail(Tail(t.shape)),
              FlatCat([l \in 1..a |->
                  SubSeq(t.data, (l - 1) * b * inner + 1, (l - 1) * b * inner + n * inner)]))

\* A slip: the rows are left in their original order.
IndexRows_original_order(t, rows) == t

\* t[rows] for a list of row numbers (0-based): advanced indexing on dimension 0.
IndexRows(t, rows) ==
    LET inner == Prod(Tail(t.shape))
    IN Tensor(<<Len(rows)>> \o Tail(t.shape),
              FlatCat([j \in 1..Len(rows) |-> Block(t.data, rows[j], inner)]))

\* t[(i0, i1)]: a tuple of two index arrays addresses dimensions 0 and 1 together.
IndexTuple(t, indices) ==
    LET W == t.shape[2]
        rest == Tail(Tail(t.shape))
        K == Len(indices[1])
    IN Tensor(<<K>> \o rest,
              FlatCat([j \in 1..K |->
                  Block(t.data, indices[1][j] * W + indices[2][j], Prod(rest))]))

\* t[a] for one 2 x K index array a: every entry of a picks a whole block of dimension 0.
IndexArray(t, indices) ==
    LET K == Len(indices[1])
        inner == Prod(Tail(t.shape))
    IN Tensor(<<2, K>> \o Tail(t.shape),
              FlatCat([r \in 1..2 |->
                  FlatCat([j \in 1..K |-> Block(t.data, indices[r][j], inner)])]))

\* v[(slice(None), i0, i1)]: dimension 0 kept, dimensions 1 and 2 addressed together.
IndexSliceTuple(v, indices) ==
    LET L == v.shape[1]
        B == v.shape[2]
        W == v.shape[3]
        rest == Tail(Tail(Tail(v.shape)))
        K == Len(indices[1])
        n == Prod(rest)
    IN Tensor(<<L, K>> \o rest,
              FlatCat([l \in 1..L |->
                  FlatCat([j \in 1..K |->
                      Block(v.data, ((l - 1) * B + indices[1][j]) * W + indices[2][j], n)])]))


\* ------------------------------------------------------------ call results
Ok(v) == [err |-> "none", val |-> v]
Raise(e) == [err |-> e, val |-> None]

\* -------------------------------------------------- karel_modules helpers
\* lstm_init(cuda, num_layers, hidden_size, *batch_sizes): zero h and c.
lstm_init(layers, batch_size, pairs_per_example) ==
    [h |-> Zeros(<<layers, batch_size, pairs_per_example>>),
     c |-> Zeros(<<layers, batch_size, pairs_per_example>>)]

\* maybe_concat(items, dim): torch.cat of the items that are not None, along the
\* feature axis; the other dimensions have to agree.
maybe_concat(items) ==
    LET present == SelectSeq(items, LAMBDA t : ~IsNone(t))
    IN IF \E i \in 1..Len(present) : present[i].shape # present[1].shape
       THEN Raise("RuntimeError")
       ELSE Ok(Tensor(present[1].shape,
                      [i \in 1..Prod(present[1].shape) |->
                          UNION {present[j].data[i] : j \in 1..Len(present)}]))

\* expand(v, k): every row of dimension 0 repeated k times, rows of one example adjacent.
expand(v, k) ==
    LET inner == Prod(Tail(v.shape))
    IN Tensor(<<v.shape[1] * k>> \o Tail(v.shape),
              FlatCat([r \in 1..(v.shape[1] * k) |-> Block(v.data, (r - 1) \div k, inner)]))

\* MaskedMemory.expand_by_beam(beam_size): expand applied to memory and attention mask.
MaskedMemory_expand_by_beam(trace, beam_size) == expand(trace, beam_size)

\* ------------------------------------------- LatePoolingCodeDecoder.Memory
Memory(io, trace) == [io |-> io, trace |-> trace]

\* A slip: the trace memory is handed on as it is.
Memory_expand_by_beam_trace_kept(self, beam_size) ==
    Memory(IF IsNone(self.io) THEN None ELSE expand(self.io, beam_size), self.trace)

Memory_expand_by_beam(self, beam_size) ==
    LET io_exp == IF IsNone(self.io) THEN None ELSE expand(self.io, beam_size)
        trace_exp == IF IsNone(self.trace) THEN None
                     ELSE MaskedMemory_expand_by_beam(self.trace, beam_size)
    IN Memory(io_exp, trace_exp)

\* -------------------------------------------- LatePoolingCodeDecoder.State
State(pairs_per_example, context, h, c) ==
    [pairs_per_example |-> pairs_per_example, context |-> context, h |-> h, c |-> c]

NoState == State(0, None, None, None)

\* tensor.view(batch_size, -1, *tensor.shape[1:])
ViewBeams(t, batch_size) ==
    Tensor(<<batch_size, t.shape[1] \div batch_size>> \o Tail(t.shape), t.data)

\* v.view(2, batch_size, -1, *v.shape[2:])
ViewLayerBeams(v, batch_size) ==
    Tensor(<<num_layers, batch_size, v.shape[2] \div batch_size>> \o Tail(Tail(v.shape)),
           v.data)

\* context.view(...)[indices.data.numpy()]: the index is the 2 x K ndarray itself.
\* What that means depends on the build: a short sequence of sequences is
\* taken for a tuple of index arrays (as_tuple), or the ndarray is one index
\* array on dimension 0, as in NumPy (then an entry >= batch_size is an IndexError).
ContextSelect(context, batch_size, indices, as_tuple) ==
    IF IsNone(context) THEN Ok(None)
    ELSE IF context.shape[1] % batch_size # 0 THEN Raise("RuntimeError")
    ELSE IF as_tuple
    THEN IF \E j \in 1..Len(indices[1]) :
                \/ indices[1][j] >= batch_size
                \/ indices[2][j] >= context.shape[1] \div batch_size
         THEN Raise("IndexError")
         ELSE Ok(IndexTuple(ViewBeams(context, batch_size), indices))
    ELSE IF \E r \in 1..2 : \E j \in 1..Len(indices[r]) : indices[r][j] >= batch_size
    THEN Raise("IndexError")
    ELSE Ok(IndexArray(ViewBeams(context, batch_size), indices))

State_select_for_beams(self, batch_size, indices, as_tuple) ==
    LET ctx == ContextSelect(self.context, batch_size, indices, as_tuple)
    IN IF ctx.err # "none" THEN ctx
       ELSE Ok(State(self.pairs_per_example,
                     ctx.val,
                     IndexSliceTuple(ViewLayerBeams(self.h, batch_size), indices),
                     IndexSliceTuple(ViewLayerBeams(self.c, batch_size), indices)))

State_truncate(self, k) ==
    IF IsNone(self.context) THEN Raise("TypeError")
    ELSE Ok(State(self.pairs_per_example,
                  Slice0(self.context, k),
                  Slice1(self.h, k), Slice1(self.c, k)))

\* -------------------------------------------------- LatePoolingCodeDecoder
\* self.decoder = nn.LSTM(input_size = 256 + 512? + 512?), self.out = nn.Linear(256 + 512?)
decoder_input_size(uses_io, uses_trace) ==
    256 + (IF uses_io THEN 512 ELSE 0) + (IF uses_trace THEN 512 ELSE 0)

\* A slip: self.out sized for the recurrent output alone.
out_in_features_without_trace(uses_trace) == 256

out_in_features(uses_trace) == 256 + (IF uses_trace THEN 512 ELSE 0)

init_state(uses_trace, batch_size, pairs_per_example) ==
    LET context == IF uses_trace THEN Zeros(<<batch_size, pairs_per_example>>)
                   ELSE None
        hc == lstm_init(num_layers, batch_size, pairs_per_example)
    IN State(pairs_per_example, context, hc.h, hc.c)

\* trace_memory is the padded, masked trace memory (batch x num pairs) or None.
prepare_memory(uses_trace, io, trace) ==
    Memory(io, IF uses_trace /\ ~IsNone(trace) THEN trace ELSE None)

\* token_emb.unsqueeze(1).expand(-1, pairs_per_example, -1)
ExpandPairs(token_emb, pairs_per_example) ==
    Tensor(<<Len(token_emb), pairs_per_example>>,
           FlatCat([r \in 1..Len(token_emb) |->
                      [p \in 1..pairs_per_example |-> token_emb[r]]]))

\* The two-layer LSTM on flattened rows: row i of the new state comes from input
\* row i and row i of the old state, layer 1 from layer 0's output.
LstmStep(dec_input, h, c) ==
    LET n == Prod(dec_input.shape)
        h0 == [i \in 1..n |-> dec_input.data[i] \cup h.data[i] \cup c.data[i]]
        h1 == [i \in 1..n |-> h0[i] \cup h.data[n + i] \cup c.data[n + i]]
    IN [output |-> h1, h |-> Tensor(h.shape, h0 \o h1), c |-> Tensor(c.shape, h0 \o h1)]

\* .view(-1, pairs_per_example, width).max(dim=1)
MaxPool(cells, pairs_per_example) ==
    [r \in 1..(Len(cells) \div pairs_per_example) |->
        UNION {cells[(r - 1) * pairs_per_example + p] : p \in 1..pairs_per_example}]

compute_next_token_logits(uses_io, uses_trace, st, mem, last_token_emb) ==
    LET pairs_per_example == st.pairs_per_example
        cat == maybe_concat(<<last_token_emb, mem.io, st.context>>)
        width == 256 + (IF IsNone(mem.io) THEN 0 ELSE 512)
                     + (IF IsNone(st.context) THEN 0 ELSE 512)
    IN IF cat.err # "none" THEN cat
       ELSE IF width # decoder_input_size(uses_io, uses_trace)
                \/ Dim(st.h, 0) # num_layers
                \/ Prod(Tail(st.h.shape)) # Prod(cat.val.shape)
                \/ st.c.shape # st.h.shape
       THEN Raise("RuntimeError")
       ELSE LET lstm == LstmStep(cat.val, st.h, st.c)
                has_context == ~IsNone(mem.trace)
            IN IF has_context /\ Prod(mem.trace.shape) # Len(lstm.output)
               THEN Raise("RuntimeError")
               ELSE LET new_context ==
                            [i \in 1..Len(lstm.output) |->
                                lstm.output[i] \cup
                                (IF has_context THEN mem.trace.data[i] ELSE {})]
                        emb_for_logits ==
                            [i \in 1..Len(lstm.output) |-> new_context[i] \cup lstm.output[i]]
                        emb_width == 256 + (IF has_context THEN 512 ELSE 0)
                    IN IF emb_width # out_in_features(uses_trace)
                       THEN Raise("RuntimeError")
                       ELSE Ok([state |->
                                   State(pairs_per_example,
                                         IF has_context
                                         THEN Tensor(<<Len(new_context) \div pairs_per_example,
                                                       pairs_per_example>>, new_context)
                                         ELSE None,
                                         lstm.h, lstm.c),
                                logits |-> MaxPool(emb_for_logits, pairs_per_example)])

\* code_embed(token): one embedding row per token.
code_embed(token) == [r \in 1..Len(token) |-> {token[r]}]

decode_token(uses_io, uses_trace, token, st, mem) ==
    compute_next_token_logits(uses_io, uses_trace, st, mem,
                              ExpandPairs(code_embed(token), st.pairs_per_example))


\* =================================================== the decoding session
\* The code tokens the caller feeds back.
Tokens == {0, 1}

\* Atoms of the cells: tokens are their ids, io rows 10 + example, trace rows 20 + example.
IoAtom(e) == 10 + e
TraceAtom(e) == 20 + e

\* One row per example and pair, each cell tagged with its example.
ExampleRows(n, pairs, first) ==
    Tensor(<<n, pairs>>, FlatCat([e \in 1..n |-> [p \in 1..pairs |-> {first + e - 1}]]))

NoCall == [op |-> "none", pre |-> NoState, premem |-> Memory(None, None),
           k |-> 0, batch_size |-> 0, indices |-> <<>>, as_tuple |-> TRUE]

\* All 2 x K index arrays, K <= MaxK: row 0 an example, row 1 one of its beams.
IndexArrays(batch_size, beam) ==
    UNION {{<<i0, i1>> : i0 \in [1..K -> 0..batch_size - 1], i1 \in [1..K -> 0..beam - 1]}
              : K \in 1..MaxK}

\* A state whose cells all differ: cell i of context, h and c is {100 + i}, {200 + i}, {300 + i}.
Labelled(shape, base) == Tensor(shape, [i \in 1..Prod(shape) |-> {base + i}])

DecodingState(with_context, n, pairs) ==
    State(pairs,
          IF with_context THEN Labelled(<<n, pairs>>, 100) ELSE None,
          Labelled(<<num_layers, n, pairs>>, 200),
          Labelled(<<num_layers, n, pairs>>, 300))

SessionInit ==
    /\ use_io_embed \in BOOLEAN
    /\ use_trace_memory \in BOOLEAN
    /\ \E n \in 1..MaxBatch, pairs \in 1..MaxPairs, has_trace \in BOOLEAN :
          memory = prepare_memory(
              use_trace_memory,
              IF use_io_embed THEN ExampleRows(n, pairs, IoAtom(0)) ELSE None,
              IF has_trace THEN ExampleRows(n, pairs, TraceAtom(0)) ELSE None)
    /\ state = NoState
    /\ fault = "none"
    /\ batch = 0
    /\ last = NoCall
    /\ ops = 0

Running == fault = "none" /\ ops < MaxOps

InitState ==
    /\ Running
    /\ \E n \in 1..MaxBatch, pairs \in 1..MaxPairs :
          /\ state' = init_state(use_trace_memory, n, pairs)
          /\ batch' = n
          /\ last' = [NoCall EXCEPT !.op = "init_state", !.pre = state, !.premem = memory,
                                    !.batch_size = n]
    /\ ops' = ops + 1
    /\ UNCHANGED <<use_io_embed, use_trace_memory, memory, fault, fwdVars, trVars, encVars>>

ExpandByBeam ==
    /\ Running
    /\ \E beam_size \in 1..MaxBeam :
          /\ memory' = Memory_expand_by_beam(memory, beam_size)
          /\ last' = [NoCall EXCEPT !.op = "expand_by_beam", !.pre = state,
                                    !.premem = memory, !.k = beam_size]
    /\ ops' = ops + 1
    /\ UNCHANGED <<use_io_embed, use_trace_memory, state, fault, batch, fwdVars, trVars, encVars>>

DecodeToken ==
    /\ Running
    /\ state # NoState
    /\ \E token \in [1..Dim(state.h, 1) -> Tokens] :
          LET r == decode_token(use_io_embed, use_trace_memory, token, state, memory)
          IN /\ fault' = r.err
             /\ state' = IF r.err = "none" THEN r.val.state ELSE state
             /\ last' = [NoCall EXCEPT !.op = "decode_token", !.pre = state,
                                       !.premem = memory, !.indices = token]
    /\ ops' = ops + 1
    /\ UNCHANGED <<use_io_embed, use_trace_memory, memory, batch, fwdVars, trVars, encVars>>

Truncate ==
    /\ Running
    /\ state # NoState
    /\ \E k \in 1..Dim(state.h, 1) :
          LET r == State_truncate(state, k)
          IN /\ fault' = r.err
             /\ state' = IF r.err = "none" THEN r.val ELSE state
             /\ batch' = IF r.err = "none" THEN k ELSE batch
             /\ last' = [NoCall EXCEPT !.op = "truncate", !.pre = state,
                                       !.premem = memory, !.k = k]
    /\ ops' = ops + 1
    /\ UNCHANGED <<use_io_embed, use_trace_memory, memory, fwdVars, trVars, encVars>>

SelectForBeams ==
    /\ Running
    /\ state # NoState
    /\ \E batch_size \in 1..Dim(state.h, 1),
          as_tuple \in IF IsNone(state.context) THEN {TRUE} ELSE BOOLEAN :
          /\ Dim(state.h, 1) % batch_size = 0
          /\ \E indices \in IndexArrays(batch_size, Dim(state.h, 1) \div batch_size) :
                /\ LET r == State_select_for_beams(state, batch_size, indices, as_tuple)
                   IN /\ fault' = r.err
                      /\ state' = IF r.err = "none" THEN r.val ELSE state
                      /\ batch' = IF r.err = "none" THEN Len(indices[1]) ELSE batch
                      /\ last' = [NoCall EXCEPT !.op = "select_for_beams", !.pre = state,
                                                !.premem = memory,
                                                !.batch_size = batch_size,
                                                !.indices = indices,
                                                !.as_tuple = as_tuple]
    /\ ops' = ops + 1
    /\ UNCHANGED <<use_io_embed, use_trace_memory, memory, fwdVars, trVars, encVars>>

\* A run that starts in the middle of a decode: some state with n rows, one call left.
OpsInit ==
    /\ use_io_embed \in BOOLEAN
    /\ use_trace_memory \in BOOLEAN
    /\ \E n \in 1..MaxBatch, pairs \in 1..MaxPairs, has_trace \in BOOLEAN, rows \in 1..MaxRows :
          /\ memory = prepare_memory(
                 use_trace_memory,
                 IF use_io_embed THEN ExampleRows(n, pairs, IoAtom(0)) ELSE None,
                 IF has_trace THEN ExampleRows(n, pairs, TraceAtom(0)) ELSE None)
          /\ state = DecodingState(use_trace_memory, rows, pairs)
          /\ batch = rows
    /\ fault = "none"
    /\ last = NoCall
    /\ ops = MaxOps - 1

SessionNext == InitState \/ ExpandByBeam \/ DecodeToken \/ Truncate \/ SelectForBeams


\* ============================================ LatePoolingCodeDecoder.forward
\* The teacher-forced decode of one packed batch.  pc is the place in forward:
\* "idle" (not called), "start", "loop" (before a timestep), "done", "raised".

\* Atoms of the packed cells: 30 + example + 10 * timestep for an input token, and
\* for every atom the example it belongs to and (for a token) its timestep.
InputAtom(e, t) == 30 + e + 10 * t
ExampleOf(atom) == atom % 10
TimeOf(atom) == (atom \div 10) - 3

\* The original indices of the examples by descending length, ties by original index.
SortOrder(lengths) ==
    CHOOSE s \in [1..Len(lengths) -> 0..Len(lengths) - 1] :
        /\ \A a, b \in 1..Len(lengths) : a # b => s[a] # s[b]
        /\ \A a, b \in 1..Len(lengths) : a < b =>
              \/ lengths[s[a] + 1] > lengths[s[b] + 1]
              \/ lengths[s[a] + 1] = lengths[s[b] + 1] /\ s[a] < s[b]

RECURSIVE MaxOf(_)
MaxOf(q) == IF Len(q) = 1 THEN q[1]
            ELSE IF Head(q) > MaxOf(Tail(q)) THEN Head(q) ELSE MaxOf(Tail(q))

RECURSIVE SumOf(_)
SumOf(q) == IF q = <<>> THEN 0 ELSE Head(q) + SumOf(Tail(q))

\* pack: timestep-major, at timestep t the examples longer than t, in sorted order.
Pack(lengths) ==
    LET order == SortOrder(lengths)
        sizes == [t \in 1..MaxOf(lengths) |->
                     Cardinality({e \in 1..Len(lengths) : lengths[e] > t - 1})]
    IN [batch_sizes |-> sizes,
        orig_to_sort |-> order,
        data |-> FlatCat([t \in 1..Len(sizes) |->
                            [r \in 1..sizes[t] |-> {InputAtom(order[r], t - 1)}]])]

NoPassed == [t |-> -1, bs |-> 0, state |-> NoState, memory |-> Memory(None, None), rows |-> 0,
             input |-> None]
NoReturn == [logits |-> <<>>, labels |-> <<>>]

ForwardInit ==
    /\ use_io_embed \in BOOLEAN
    /\ use_trace_memory \in BOOLEAN
    /\ \E n \in 1..MaxBatch, pairs \in 1..MaxPairs, has_trace \in BOOLEAN :
          \E lengths \in [1..n -> 1..MaxLen] :
             /\ args = [batch_size |-> n, pairs_per_example |-> pairs,
                        io_embed |-> IF use_io_embed THEN ExampleRows(n, pairs, IoAtom(0))
                                     ELSE None,
                        trace_memory |-> IF has_trace THEN ExampleRows(n, pairs, TraceAtom(0))
                                         ELSE None]
             /\ input_code = Pack(lengths)
             /\ output_code = Pack(lengths)
    /\ pc = "start"
    /\ state = NoState
    /\ memory = Memory(None, None)
    /\ fault = "none"
    /\ io_embed = None
    /\ trace_memory = None
    /\ logits = <<>>
    /\ offset = 0
    /\ last_bs = 0
    /\ step = 0
    /\ batch_order = <<>>
    /\ passed = NoPassed
    /\ returned = NoReturn
    /\ batch = 0
    /\ last = NoCall
    /\ ops = 0

\* forward, up to the loop: the state, the memory and its rows in sorted order.
ForwardPrepare ==
    /\ pc = "start"
    /\ LET mem == prepare_memory(use_trace_memory, args.io_embed, args.trace_memory)
           io_sorted == IF IsNone(mem.io) THEN None
                        ELSE IndexRows(mem.io, input_code.orig_to_sort)
           trace_sorted == IF IsNone(mem.trace) THEN None
                           ELSE IndexRows(mem.trace, input_code.orig_to_sort)
       IN /\ state' = init_state(use_trace_memory, args.batch_size, args.pairs_per_example)
          /\ io_embed' = io_sorted
          /\ trace_memory' = trace_sorted
          /\ memory' = Memory(io_sorted, trace_sorted)
    /\ logits' = <<>>
    /\ offset' = 0
    /\ last_bs' = 0
    /\ step' = 0
    /\ batch_order' = input_code.orig_to_sort
    /\ pc' = "loop"
    /\ UNCHANGED <<use_io_embed, use_trace_memory, fault, batch, last, ops, args, input_code,
                   output_code, passed, returned, trVars, encVars>>

\* A slip: the state is never truncated.
ForwardTruncate_never(st, bs, shrinks) == Ok(st)

\* state.truncate(bs) when the batch shrinks, else the state as it is.
ForwardTruncate(st, bs, shrinks) ==
    IF shrinks THEN State_truncate(st, bs) ELSE Ok(st)

\* The memory of this timestep: sliced to bs rows when the batch shrinks.
ForwardMemory(mem, io, trace, bs, shrinks) ==
    IF shrinks
    THEN Memory(IF ~IsNone(io) THEN Slice0(io, bs) ELSE mem.io,
                IF ~IsNone(trace) THEN Slice0(trace, bs) ELSE mem.trace)
    ELSE mem

\* One pass of the loop over input_code.ps.batch_sizes.
ForwardStep ==
    /\ pc = "loop"
    /\ step < Len(input_code.batch_sizes)
    /\ LET bs == input_code.batch_sizes[step + 1]
           dec_data_slice == ExpandPairs(SubSeq(input_code.data, offset + 1, offset + bs),
                                         args.pairs_per_example)
           shrinks == bs < last_bs
           mem == ForwardMemory(memory, io_embed, trace_memory, bs, shrinks)
           tr == ForwardTruncate(state, bs, shrinks)
           r == compute_next_token_logits(use_io_embed, use_trace_memory, tr.val, mem,
                                          dec_data_slice)
       IN IF tr.err # "none"
          THEN /\ fault' = tr.err
               /\ pc' = "raised"
               /\ memory' = mem
               /\ batch_order' = SubSeq(batch_order, 1, bs)
               /\ UNCHANGED <<state, logits, offset, last_bs, step, passed>>
          ELSE /\ passed' = [t |-> step, bs |-> bs, state |-> tr.val, memory |-> mem,
                             rows |-> Dim(dec_data_slice, 0), input |-> dec_data_slice]
               /\ memory' = mem
               /\ batch_order' = IF shrinks THEN SubSeq(batch_order, 1, bs) ELSE batch_order
               /\ IF r.err # "none"
                  THEN /\ fault' = r.err
                       /\ pc' = "raised"
                       /\ state' = tr.val
                       /\ UNCHANGED <<logits, offset, last_bs, step>>
                  ELSE /\ state' = r.val.state
                       /\ logits' = Append(logits, r.val.logits)
                       /\ offset' = offset + bs
                       /\ last_bs' = bs
                       /\ step' = step + 1
                       /\ UNCHANGED <<fault, pc>>
    /\ UNCHANGED <<use_io_embed, use_trace_memory, batch, last, ops, args, input_code,
                   output_code, io_embed, trace_memory, returned, trVars, encVars>>

\* torch.cat(logits, dim=0) and the packed labels.
ForwardReturn ==
    /\ pc = "loop"
    /\ step = Len(input_code.batch_sizes)
    /\ returned' = [logits |-> FlatCat(logits), labels |-> output_code.data]
    /\ pc' = "done"
    /\ UNCHANGED <<decVars, args, input_code, output_code, io_embed, trace_memory, logits,
                   offset, last_bs, step, batch_order, passed, trVars, encVars>>

ForwardNext == ForwardPrepare \/ ForwardStep \/ ForwardReturn

\* The forward variables while no forward call runs.
ForwardIdle ==
    /\ pc = "idle"
    /\ args = [batch_size |-> 0, pairs_per_example |-> 0, io_embed |-> None,
               trace_memory |-> None]
    /\ input_code = [batch_sizes |-> <<>>, orig_to_sort |-> <<>>, data |-> <<>>]
    /\ output_code = [batch_sizes |-> <<>>, orig_to_sort |-> <<>>, data |-> <<>>]
    /\ io_embed = None
    /\ trace_memory = None
    /\ logits = <<>>
    /\ offset = 0
    /\ last_bs = 0
    /\ step = 0
    /\ batch_order = <<>>
    /\ passed = NoPassed
    /\ returned = NoReturn

\* ============================================================ TraceDecoder
\* A grid is a corridor world: Karel's cell, heading (0 east, 1 north, 2 west,
\* 3 south) and the markers on the cell.  numpy arrays live in a heap, so that two
\* names of one array share its rows: heap[a] is the array at address a.
GridWidth == 2
MaxMarkers == 1

Grid(pos, dir, markers) == [pos |-> pos, dir |-> dir, markers |-> markers]
StartGrids == {Grid(0, 0, 0), Grid(GridWidth - 1, 2, MaxMarkers)}

\* KarelRuntime: init_from_array(field), then the action, which rewrites field.
Sim(g, action_id) ==
    CASE action_id = 2 ->
            IF g.dir = 0 /\ g.pos < GridWidth - 1 THEN [g EXCEPT !.pos = g.pos + 1]
            ELSE IF g.dir = 2 /\ g.pos > 0 THEN [g EXCEPT !.pos = g.pos - 1]
            ELSE g
      [] action_id = 3 -> [g EXCEPT !.dir = (g.dir + 1) % 4]
      [] action_id = 4 -> [g EXCEPT !.dir = (g.dir + 3) % 4]
      [] action_id = 5 -> [g EXCEPT !.markers = Min(g.markers + 1, MaxMarkers)]
      [] action_id = 6 -> [g EXCEPT !.markers = IF g.markers > 0 THEN g.markers - 1 ELSE 0]
      [] OTHER -> g

GridAtom(g) == 100 + (g.pos * 4 + g.dir) * (MaxMarkers + 1) + g.markers


TraceDecoderState(field, h, c) == [field |-> field, h |-> h, c |-> c]

\* A slip: the field is gathered by (beam, example) instead of (example, beam).
TraceDecoderState_select_for_beams_swapped(hp, self, batch_size, indices) ==
    LET beam == Len(hp[self.field]) \div batch_size
        picked == [j \in 1..Len(indices[1]) |->
                      hp[self.field][((indices[2][j] * batch_size + indices[1][j])
                                         % Len(hp[self.field])) + 1]]
    IN [heap |-> Append(hp, picked),
        state |-> TraceDecoderState(
                      Len(hp) + 1,
                      IndexSliceTuple(ViewLayerBeams(self.h, batch_size), indices),
                      IndexSliceTuple(ViewLayerBeams(self.c, batch_size), indices))]

\* field.reshape(batch_size, -1, ...)[tuple(indices)] is a new array; h and c as in
\* LatePoolingCodeDecoder.State.
TraceDecoderState_select_for_beams(hp, self, batch_size, indices) ==
    LET beam == Len(hp[self.field]) \div batch_size
        picked == [j \in 1..Len(indices[1]) |->
                      hp[self.field][indices[1][j] * beam + indices[2][j] + 1]]
    IN [heap |-> Append(hp, picked),
        state |-> TraceDecoderState(
                      Len(hp) + 1,
                      IndexSliceTuple(ViewLayerBeams(self.h, batch_size), indices),
                      IndexSliceTuple(ViewLayerBeams(self.c, batch_size), indices))]

\* A slip: only <s> is skipped.
Ignored_start_only(action_id) == action_id < EndTok

\* if action_id < 2: continue
Ignored(action_id) == action_id < FirstActionId

\* A slip: fields = state.field, the same array.
CopyFields_alias(hp, addr) == [heap |-> hp, addr |-> addr]

\* fields = state.field.copy()
CopyFields(hp, addr) == [heap |-> Append(hp, hp[addr]), addr |-> Len(hp) + 1]

\* The loop over zip(fields, token): the rows of fields the simulator rewrites.
AdvanceGrids(fields, token) ==
    [r \in 1..Len(fields) |->
        IF r > Len(token) \/ Ignored(token[r]) THEN fields[r] ELSE Sim(fields[r], token[r])]

\* The beams (0-based) the simulator was run for.
SimulatedBeams(fields, token) ==
    {r - 1 : r \in {q \in 1..Min(Len(fields), Len(token)) : ~Ignored(token[q])}}

TraceDecoder_decode_token(enc, hp, token, st, mem) ==
    LET copied == IF enc THEN CopyFields(hp, st.field) ELSE [heap |-> hp, addr |-> st.field]
        hp1 == IF enc
               THEN [copied.heap EXCEPT ![copied.addr] = AdvanceGrids(copied.heap[copied.addr], token)]
               ELSE hp
        fields == hp1[copied.addr]
        grid_embed == IF enc THEN Tensor(<<Len(fields)>>,
                                         [r \in 1..Len(fields) |-> {GridAtom(fields[r])}])
                      ELSE None
        action_embed == Tensor(<<Len(token)>>, code_embed(token))
        cat == maybe_concat(<<action_embed, grid_embed, mem>>)
    IN IF cat.err # "none" \/ st.h.shape # <<num_layers>> \o cat.val.shape
                           \/ st.c.shape # st.h.shape
       THEN [err |-> "RuntimeError", heap |-> hp1, state |-> st, logits |-> <<>>,
             simulated |-> IF enc THEN SimulatedBeams(hp[st.field], token) ELSE {}]
       ELSE LET lstm == LstmStep(cat.val, st.h, st.c)
            IN [err |-> "none", heap |-> hp1,
                state |-> TraceDecoderState(copied.addr, lstm.h, lstm.c),
                logits |-> lstm.output,
                simulated |-> IF enc THEN SimulatedBeams(hp[st.field], token) ELSE {}]

NoTraceCall == [op |-> "none", pre |-> TraceDecoderState(0, None, None), prefield |-> <<>>,
                token |-> <<>>, batch_size |-> 0, indices |-> <<>>, simulated |-> {}]

\* Some state in the middle of a decode: one grid per beam, h and c of the same rows.
TraceInit ==
    /\ grid_encoder \in BOOLEAN
    /\ \E n \in 1..MaxRows :
          /\ \E fields \in [1..n -> StartGrids] : heap = <<fields>>
          /\ tstate = TraceDecoderState(1, Labelled(<<num_layers, n>>, 200),
                                        Labelled(<<num_layers, n>>, 300))
          /\ tmemory = Labelled(<<n>>, 10)
    /\ tfault = "none"
    /\ tlast = NoTraceCall

TraceDecodeToken ==
    /\ tlast.op = "none"
    /\ Dim(tstate.h, 1) <= MaxDecodeRows
    /\ \E token \in [1..Dim(tstate.h, 1) -> 0..num_actions - 1] :
          LET r == TraceDecoder_decode_token(grid_encoder, heap, token, tstate, tmemory)
          IN /\ heap' = r.heap
             /\ tstate' = r.state
             /\ tfault' = r.err
             /\ tlast' = [NoTraceCall EXCEPT !.op = "decode_token", !.pre = tstate,
                                             !.prefield = heap[tstate.field],
                                             !.token = token, !.simulated = r.simulated]
    /\ UNCHANGED <<grid_encoder, tmemory, decVars, fwdVars, encVars>>

TraceSelectForBeams ==
    /\ tlast.op = "none"
    /\ \E batch_size \in 1..Dim(tstate.h, 1) :
          /\ Dim(tstate.h, 1) % batch_size = 0
          /\ \E indices \in IndexArrays(batch_size, Dim(tstate.h, 1) \div batch_size) :
                LET r == TraceDecoderState_select_for_beams(heap, tstate, batch_size, indices)
                IN /\ heap' = r.heap
                   /\ tstate' = r.state
                   /\ tlast' = [NoTraceCall EXCEPT !.op = "select_for_beams", !.pre = tstate,
                                                   !.prefield = heap[tstate.field],
                                                   !.batch_size = batch_size,
                                                   !.indices = indices]
    /\ UNCHANGED <<grid_encoder, tmemory, tfault, decVars, fwdVars, encVars>>

TraceNext == TraceDecodeToken \/ TraceSelectForBeams

\* The TraceDecoder variables while no TraceDecoder is in use.
TraceIdle ==
    /\ grid_encoder = FALSE
    /\ heap = <<>>
    /\ tstate = TraceDecoderState(0, None, None)
    /\ tmemory = None
    /\ tfault = "none"
    /\ tlast = NoTraceCall

\* The decoder variables while no LatePoolingCodeDecoder is in use.
DecoderIdle ==
    /\ use_io_embed = FALSE
    /\ use_trace_memory = FALSE
    /\ state = NoState
    /\ memory = Memory(None, None)
    /\ fault = "none"
    /\ batch = 0
    /\ last = NoCall
    /\ ops = 0

\* ================================================== IndividualTraceEncoder
\* set_pop(s, x): whether x was in s (x is taken out of s).
set_pop(options, x) == x \in options

\* A slip: the width is not checked.
ConcatWidthOk_unchecked(enc_input_size) == TRUE

\* assert enc_input_size
ConcatWidthOk(enc_input_size) == enc_input_size # 0

Built(interleave, size, grid, cond, action) ==
    [status |-> "constructed", interleave |-> interleave, enc_input_size |-> size,
     has_grid |-> grid, has_cond |-> cond, has_action |-> action]
Failed(e) ==
    [status |-> e, interleave |-> FALSE, enc_input_size |-> 0,
     has_grid |-> FALSE, has_cond |-> FALSE, has_action |-> FALSE]
Pending == Failed("pending")

\* __init__: has_x is "self.x is not karel_common.none_fn".
IndividualTraceEncoder_init(a) ==
    LET has_grid == a.grid_enc # "none"
        has_cond == a.cond_enc # "none"
        interleave == set_pop(a.options, "interleave")
        concat == set_pop(a.options, "concat")
        rest == a.options \ {"interleave", "concat"}
        self_interleave == interleave /\ ~concat
        has_action == a.action_enc = "emb"
        size == (IF has_action THEN 512 ELSE 0) + (IF has_grid THEN 256 ELSE 0)
                    + (IF has_cond THEN 256 ELSE 0)
    IN IF a.grid_enc \notin {"lgrl", "presnet", "none"} THEN Failed("ValueError")
       ELSE IF a.cond_enc \notin {"concat", "sum", "none"} THEN Failed("ValueError")
       ELSE IF a.cond_enc = "concat" /\ a.true_division THEN Failed("TypeError")
       ELSE IF interleave = concat THEN Failed("AssertionError")
       ELSE IF rest # {} THEN Failed("AssertionError")
       ELSE IF a.action_enc \notin {"emb", "none"} THEN Failed("AttributeError")
       ELSE IF self_interleave
       THEN IF ~has_action THEN Failed("AssertionError")
            ELSE IF ~has_grid /\ ~has_cond THEN Failed("AssertionError")
            ELSE Built(TRUE, 512, has_grid, has_cond, has_action)
       ELSE IF ~ConcatWidthOk(size) THEN Failed("AssertionError")
            ELSE Built(FALSE, size, has_grid, has_cond, has_action)

EncInit ==
    /\ enc_args \in [grid_enc : {"lgrl", "presnet", "none", "other"},
                     cond_enc : {"concat", "sum", "none", "other"},
                     action_enc : {"emb", "none", "other"},
                     options : SUBSET {"interleave", "concat", "other"},
                     true_division : BOOLEAN]
    /\ encoder = Pending

Construct ==
    /\ encoder = Pending
    /\ encoder' = IndividualTraceEncoder_init(enc_args)
    /\ UNCHANGED <<enc_args, decVars, fwdVars, trVars>>

EncIdle ==
    /\ enc_args = [grid_enc |-> "none", cond_enc |-> "none", action_enc |-> "none",
                   options |-> {}, true_division |-> FALSE]
    /\ encoder = Pending

\* ------------------------------------------------------- specifications
\* A decoding session from init_state on.
Init == SessionInit /\ ForwardIdle /\ TraceIdle /\ EncIdle
Next == SessionNext
Spec == Init /\ [][Next]_vars

\* A decode without beam selection: init_state, then steps on the prepared memory.
DecodeNext == InitState \/ ExpandByBeam \/ DecodeToken \/ Truncate
SpecDecode == Init /\ [][DecodeNext]_vars

\* One call on a state in the middle of a decode.
InitOps == OpsInit /\ ForwardIdle /\ TraceIdle /\ EncIdle
SpecOps == InitOps /\ [][Next]_vars

\* One call of forward.
InitForward == ForwardInit /\ TraceIdle /\ EncIdle
SpecForward == InitForward /\ [][ForwardNext]_vars

\* One call on a TraceDecoder state in the middle of a decode.
InitTrace == TraceInit /\ DecoderIdle /\ ForwardIdle /\ EncIdle
SpecTrace == InitTrace /\ [][TraceNext]_vars

\* The construction of one IndividualTraceEncoder.
InitEnc == EncInit /\ DecoderIdle /\ ForwardIdle /\ TraceIdle
SpecEnc == InitEnc /\ [][Construct]_vars

\* ================================================================ claims
\* Row r (0-based) of dimension 0, and row r of layer l of a layers x rows x ... tensor.
RowOf(t, r) == Block(t.data, r, Prod(Tail(t.shape)))
LayerRowOf(v, l, r) == Block(v.data, l * v.shape[2] + r, Prod(Tail(Tail(v.shape))))

Returned(op) == last.op = op /\ fault = "none"

\* The row of the source state that column j (0-based) of the indices names.
SourceRow(j) ==
    last.indices[1][j + 1] * (Dim(last.pre.h, 1) \div last.batch_size) + last.indices[2][j + 1]

SelectedLayers(v, pre, K) ==
    /\ v.shape = <<num_layers, K, last.pre.pairs_per_example>>
    /\ \A l \in 0..num_layers - 1 : \A j \in 0..K - 1 :
          LayerRowOf(v, l, j) = LayerRowOf(pre, l, SourceRow(j))

SelectedRows(t, pre, K) ==
    IF IsNone(pre) THEN IsNone(t)
    ELSE /\ t.shape = <<K, last.pre.pairs_per_example>>
         /\ \A j \in 0..K - 1 : RowOf(t, j) = RowOf(pre, SourceRow(j))

\* C2: State.select_for_beams(batch_size, indices) with a 2 x K index array returns a
\* state with exactly K rows in context (when present), h and c, and row j of every
\* field is the source row (indices[0][j], indices[1][j]), in the order of the columns.
C2_SelectForBeamsRows ==
    last.op = "select_for_beams" =>
        /\ fault = "none"
        /\ SelectedRows(state.context, last.pre.context, Len(last.indices[1]))
        /\ SelectedLayers(state.h, last.pre.h, Len(last.indices[1]))
        /\ SelectedLayers(state.c, last.pre.c, Len(last.indices[1]))

\* C3: for a state whose context is a tensor or none and 1 <= k <= active batch size,
\* truncate(k) returns a state whose fields all have k rows, equal to the first k rows
\* of the state before, with pairs_per_example unchanged.
C3_TruncateFirstRows ==
    last.op = "truncate" =>
        /\ fault = "none"
        /\ state.pairs_per_example = last.pre.pairs_per_example
        /\ IF IsNone(last.pre.context) THEN IsNone(state.context)
           ELSE /\ Dim(state.context, 0) = last.k
                /\ \A r \in 0..last.k - 1 :
                      RowOf(state.context, r) = RowOf(last.pre.context, r)
        /\ Dim(state.h, 1) = last.k /\ Dim(state.c, 1) = last.k
        /\ \A l \in 0..num_layers - 1 : \A r \in 0..last.k - 1 :
              /\ LayerRowOf(state.h, l, r) = LayerRowOf(last.pre.h, l, r)
              /\ LayerRowOf(state.c, l, r) = LayerRowOf(last.pre.c, l, r)

\* C6: after any sequence of init_state, decode steps, truncate and select_for_beams, the
\* active-batch dimensions of context (when present), h and c are equal to each other
\* and to the current decode batch size.
C6_ActiveBatchAgrees ==
    (state # NoState /\ fault = "none") =>
        /\ IsNone(state.context) \/ Dim(state.context, 0) = batch
        /\ Dim(state.h, 1) = batch
        /\ Dim(state.c, 1) = batch

ExpandedRows(t, pre, width) ==
    IF IsNone(pre) THEN IsNone(t)
    ELSE /\ t.shape = <<Dim(pre, 0) * width>> \o Tail(pre.shape)
         /\ \A e \in 0..Dim(pre, 0) - 1 : \A b \in 0..width - 1 :
               RowOf(t, e * width + b) = RowOf(pre, e)

\* C9: Memory.expand_by_beam(width) on B example rows returns a memory whose present
\* components have B * width rows, rows e*width .. e*width + width - 1 being copies of
\* example e; absent components stay absent.
C9_ExpandByBeamBlocks ==
    Returned("expand_by_beam") =>
        /\ ExpandedRows(memory.io, last.premem.io, last.k)
        /\ ExpandedRows(memory.trace, last.premem.trace, last.k)

C9_Witness ==
    /\ Returned("expand_by_beam")
    /\ last.k = 3
    /\ Dim(last.premem.io, 0) = 2
    /\ Dim(last.premem.trace, 0) = 2
    /\ Dim(memory.io, 0) = 6


\* C1: in forward, at every timestep t the state (context, h, c) and the memory (io,
\* trace) passed to compute_next_token_logits have exactly batch_sizes[t] rows, the
\* number of input rows of the timestep.
C1_PassedRowsAreBatchSize ==
    passed.t >= 0 =>
        LET bs == input_code.batch_sizes[passed.t + 1]
        IN /\ passed.rows = bs
           /\ IsNone(passed.state.context) \/ Dim(passed.state.context, 0) = bs
           /\ Dim(passed.state.h, 1) = bs
           /\ Dim(passed.state.c, 1) = bs
           /\ IsNone(passed.memory.io) \/ Dim(passed.memory.io, 0) = bs
           /\ IsNone(passed.memory.trace) \/ Dim(passed.memory.trace, 0) = bs

C1_Witness ==
    /\ passed.t = 2
    /\ input_code.batch_sizes = <<2, 2, 1>>
    /\ Dim(passed.state.context, 0) = 1
    /\ Dim(passed.state.h, 1) = 1
    /\ Dim(passed.memory.io, 0) = 1
    /\ Dim(passed.memory.trace, 0) = 1
    /\ pc = "loop"

\* The example and timestep of packed position i (1-based) of input_code.
PackedTime(i) ==
    CHOOSE t \in 0..Len(input_code.batch_sizes) - 1 :
        /\ SumOf(SubSeq(input_code.batch_sizes, 1, t)) < i
        /\ i <= SumOf(SubSeq(input_code.batch_sizes, 1, t + 1))
PackedExample(i) ==
    input_code.orig_to_sort[i - SumOf(SubSeq(input_code.batch_sizes, 1, PackedTime(i)))]

\* Logits row i is computed from the example of packed position i, up to its timestep.
AlignedLogits ==
    /\ Len(returned.logits) = SumOf(input_code.batch_sizes)
    /\ Len(returned.labels) = Len(returned.logits)
    /\ \A i \in 1..Len(returned.logits) :
          /\ returned.labels[i] = {InputAtom(PackedExample(i), PackedTime(i))}
          /\ InputAtom(PackedExample(i), PackedTime(i)) \in returned.logits[i]
          /\ \A a \in returned.logits[i] :
                ExampleOf(a) = PackedExample(i) /\ TimeOf(a) <= PackedTime(i)

\* The trace memory is supplied whenever the decoder is built to use it.
TraceSupplied == use_trace_memory => ~IsNone(args.trace_memory)

\* C5: forward returns exactly sum(batch_sizes) logits rows in packed timestep-major
\* order, row i scoring the target at the packed position of labels row i (5 rows for
\* lengths 3 and 2); stated for the calls that supply the trace memory the decoder uses.
C5_ForwardReturnsAlignedLogits ==
    (pc \in {"done", "raised"} /\ TraceSupplied) => (pc = "done" /\ AlignedLogits)


\* The grids of the state decode_token returned, and of the state it was given (as
\* they are now).
ReturnedGrids == heap[tstate.field]
IncomingGrids == heap[tlast.pre.field]

TraceReturned(op) == tlast.op = op /\ tfault = "none"

\* C4: decode_token leaves the grid of every beam whose token is <s> or </s> as it
\* was in the incoming state, and does not run the simulator for that beam, whatever
\* the tokens of the other beams.
C4_MarkersKeepGrid ==
    TraceReturned("decode_token") =>
        \A r \in 1..Len(tlast.token) :
            tlast.token[r] \in {StartTok, EndTok} =>
                /\ ReturnedGrids[r] = tlast.prefield[r]
                /\ (r - 1) \notin tlast.simulated

C4_Witness ==
    /\ TraceReturned("decode_token")
    /\ grid_encoder
    /\ Len(tlast.token) = 2
    /\ tlast.token[1] = EndTok
    /\ tlast.token[2] = 3
    /\ ReturnedGrids[2] # tlast.prefield[2]
    /\ tlast.simulated = {1}

\* C7: with grid features enabled decode_token does not modify the grids of the
\* incoming state, the returned grids are separate storage, and every beam's returned
\* grid is determined by its own incoming grid and its own token.
C7_IncomingGridsKept ==
    (tlast.op = "decode_token" /\ grid_encoder) =>
        /\ IncomingGrids = tlast.prefield
        /\ tfault = "none" =>
              /\ tstate.field # tlast.pre.field
              /\ \A r \in 1..Len(tlast.token) :
                    ReturnedGrids[r] = IF tlast.token[r] < FirstActionId
                                       THEN tlast.prefield[r]
                                       ELSE Sim(tlast.prefield[r], tlast.token[r])

C7_Witness ==
    /\ TraceReturned("decode_token")
    /\ grid_encoder
    /\ Len(tlast.token) = 2
    /\ tlast.token[1] = 2
    /\ tlast.token[2] = 5
    /\ ReturnedGrids[1] # tlast.prefield[1]
    /\ ReturnedGrids[2] # tlast.prefield[2]
    /\ IncomingGrids = tlast.prefield

\* The row of the source TraceDecoderState that column j (0-based) of the indices names.
TraceSourceRow(j) ==
    tlast.indices[1][j + 1] * (Len(tlast.prefield) \div tlast.batch_size)
        + tlast.indices[2][j + 1]

\* C10: TraceDecoderState.select_for_beams(batch_size, indices) with a 2 x K index array
\* returns field, h and c of exactly K rows each, row j being the source row of example
\* indices[0][j], beam indices[1][j], in column order, the same source row for the grid
\* as for h and c.
C10_TraceSelectKeepsPairs ==
    TraceReturned("select_for_beams") =>
        LET K == Len(tlast.indices[1])
        IN /\ Len(ReturnedGrids) = K
           /\ tstate.h.shape = <<num_layers, K>>
           /\ tstate.c.shape = <<num_layers, K>>
           /\ \A j \in 0..K - 1 :
                 /\ ReturnedGrids[j + 1] = tlast.prefield[TraceSourceRow(j) + 1]
                 /\ \A l \in 0..num_layers - 1 :
                       /\ LayerRowOf(tstate.h, l, j) = LayerRowOf(tlast.pre.h, l, TraceSourceRow(j))
                       /\ LayerRowOf(tstate.c, l, j) = LayerRowOf(tlast.pre.c, l, TraceSourceRow(j))

C10_Witness ==
    /\ TraceReturned("select_for_beams")
    /\ tlast.batch_size = 2
    /\ tlast.indices = <<<<0, 0, 1>>, <<0, 1, 0>>>>
    /\ Len(tlast.prefield) = 4
    /\ tlast.prefield[2] # tlast.prefield[3]
    /\ Len(ReturnedGrids) = 3


AllSourcesDisabled ==
    enc_args.grid_enc = "none" /\ enc_args.cond_enc = "none" /\ enc_args.action_enc = "none"

\* C8: constructing an IndividualTraceEncoder either fails or yields a strictly positive
\* encoder input width, and it fails whenever grid, conditionals and actions are all
\* disabled.
C8_ConstructedHasInput ==
    encoder # Pending =>
        /\ encoder.status = "constructed" => encoder.enc_input_size > 0
        /\ AllSourcesDisabled => encoder.status # "constructed"

C8_Witness ==
    /\ AllSourcesDisabled
    /\ enc_args.options = {"concat"}
    /\ encoder.status = "AssertionError"

\* ------------------------------------------------- C11: one owner per row
AtomsOf(cells) == UNION {cells[i] : i \in 1..Len(cells)}

\* Every input that reached the cells belongs to example e.
OwnedBy(cells, e) == \A a \in AtomsOf(cells) : ExampleOf(a) = e

\* The length of example e, counted on the packed input tokens.
LengthOf(e) ==
    Cardinality({i \in 1..Len(input_code.data) :
                    \E a \in input_code.data[i] : ExampleOf(a) = e})

\* The original indices of the rows given to the call at timestep passed.t.
ActiveOwners == {input_code.orig_to_sort[r + 1] : r \in 0..passed.bs - 1}

\* C11: at every call of compute_next_token_logits made by forward at timestep t,
\* for every row r < batch_sizes[t], the input-token row r is the token of example
\* orig_to_sort[r] at timestep t, the io and trace memory rows r are those of that
\* example, and the state row r (h, c, context) has been computed from that
\* example's inputs only; the rows given are those of exactly the examples longer
\* than t, and batch_order lists them while forward runs.
C11_RowsBelongToOneExample ==
    passed.t >= 0 =>
        /\ fault = "none" => batch_order = SubSeq(input_code.orig_to_sort, 1, passed.bs)
        /\ ActiveOwners = {e \in 0..args.batch_size - 1 : LengthOf(e) > passed.t}
        /\ Dim(passed.input, 0) = passed.bs
        /\ Dim(passed.state.h, 1) = passed.bs
        /\ Dim(passed.state.c, 1) = passed.bs
        /\ IsNone(passed.state.context) \/ Dim(passed.state.context, 0) = passed.bs
        /\ IsNone(passed.memory.io) \/ Dim(passed.memory.io, 0) = passed.bs
        /\ IsNone(passed.memory.trace) \/ Dim(passed.memory.trace, 0) = passed.bs
        /\ \A r \in 0..passed.bs - 1 :
              LET owner == input_code.orig_to_sort[r + 1]
              IN /\ AtomsOf(RowOf(passed.input, r)) = {InputAtom(owner, passed.t)}
                 /\ IsNone(passed.memory.io)
                       \/ AtomsOf(RowOf(passed.memory.io, r)) = {IoAtom(owner)}
                 /\ IsNone(passed.memory.trace)
                       \/ AtomsOf(RowOf(passed.memory.trace, r)) = {TraceAtom(owner)}
                 /\ IsNone(passed.state.context)
                       \/ OwnedBy(RowOf(passed.state.context, r), owner)
                 /\ \A l \in 0..num_layers - 1 :
                       /\ OwnedBy(LayerRowOf(passed.state.h, l, r), owner)
                       /\ OwnedBy(LayerRowOf(passed.state.c, l, r), owner)
                       /\ passed.t > 0 =>
                             InputAtom(owner, passed.t - 1)
                                \in AtomsOf(LayerRowOf(passed.state.h, l, r))

\* A call after the batch shrank, of a batch whose sorted order is not the original one,
\* with io and trace memory and a state that carries the surviving example's history.
C11_Witness ==
    /\ fault = "none"
    /\ input_code.orig_to_sort = <<1, 0>>
    /\ input_code.batch_sizes = <<2, 2, 1>>
    /\ passed.t = 2
    /\ passed.bs = 1
    /\ ~IsNone(passed.memory.io)
    /\ ~IsNone(passed.memory.trace)
    /\ ~IsNone(passed.state.context)
    /\ AtomsOf(RowOf(passed.memory.io, 0)) = {IoAtom(1)}
    /\ AtomsOf(RowOf(passed.memory.trace, 0)) = {TraceAtom(1)}
    /\ InputAtom(1, 1) \in AtomsOf(RowOf(passed.state.context, 0))
    /\ InputAtom(1, 0) \in AtomsOf(LayerRowOf(passed.state.h, 1, 0))

\* --------------------------------------- C12: the context is there or not
\* C12: in every state of a decode the context is present exactly when the decoder
\* uses trace memory, which is what init_state gives: a state returned by
\* compute_next_token_logits has a context if and only if the state it was given
\* has one, whatever memory prepare_memory built (trace_memory None included).
C12_ContextPresenceIsFixed ==
    /\ state # NoState => (IsNone(state.context) <=> ~use_trace_memory)
    /\ Returned("decode_token") =>
          /\ IsNone(state.context) <=> IsNone(last.pre.context)
          /\ 256 + (IF IsNone(memory.io) THEN 0 ELSE 512)
                 + (IF IsNone(state.context) THEN 0 ELSE 512)
                = decoder_input_size(use_io_embed, use_trace_memory)

\* Two decode steps in a row have returned on a decoder that uses trace memory: the
\* second was given the context the first computed, and returned one again.
C12_Witness ==
    /\ Returned("decode_token")
    /\ use_trace_memory
    /\ ~IsNone(memory.trace)
    /\ \E i \in 1..Len(last.pre.context.data) : last.pre.context.data[i] # {}
    /\ ~IsNone(state.context)

====
